---- MODULE Spec2Model ----
(***************************************************************************)
(* SlurmCluster (runhouse/rns/hardware/slurm_cluster.py): the lifecycle of *)
(* the partition server (_launch_partition_server and its liveness probe   *)
(* _partition_server_is_running) and job submission (jump_run), run        *)
(* against a remote host that executes the shell commands the code builds. *)
(* Text is kept as text: commands and listings are strings, and Python's   *)
(* `in` is a substring search over them.                                   *)
(***************************************************************************)
EXTENDS Integers, Sequences, FiniteSets, TLC

\* ------------------------------------------------------------------ bounds
\* Number of constructor / _launch_partition_server calls in one behaviour.
MaxCalls == 2
\* Number of jump_run calls in one behaviour.
MaxSubmits == 1

\* ------------------------------------------------------- Python values
\* Optional[str]: None, or a one-element tuple holding the value.
None == <<>>
Some(v) == <<v>>

\* Python truthiness of an Optional[str]: None and "" are falsy.
Truthy(o) == o # None /\ o[1] # ""

\* Python's `x or d` for an Optional[str] x and a str d.
PyOr(o, d) == IF Truthy(o) THEN o[1] ELSE d

\* Python's `needle in hay` for two str: substring search.
Contains(needle, hay) ==
  \E i \in 0..(Len(hay) - Len(needle)) :
     SubSeq(hay, i + 1, i + Len(needle)) = needle

StartsWith(s, pre) == Len(s) >= Len(pre) /\ SubSeq(s, 1, Len(pre)) = pre

\* The text of s after its first Len(pre) characters.
After(s, pre) == SubSeq(s, Len(pre) + 1, Len(s))

\* The text of s before the first occurrence of sep (all of s when there is none).
Before(s, sep) ==
  LET at == { i \in 1..(Len(s) - Len(sep) + 1) : SubSeq(s, i, i + Len(sep) - 1) = sep }
  IN IF at = {} THEN s
     ELSE SubSeq(s, 1, (CHOOSE i \in at : \A j \in at : i <= j) - 1)

\* ------------------------------------------------------ the code's text
PARTITION_SERVER_JOB == "partition_server"

path_to_partition_server == "runhouse.servers.http.slurm.partition_server"

\* line 130: the queue-status check of the launch step
queue_cmd(job_name) == "squeue -n " \o job_name

\* lines 135-138: the scheduled launch command
srun_cmd(job_name) ==
  "srun -J " \o job_name \o " -o %j.out -e %j.err "
     \o "python3 -m " \o path_to_partition_server

\* line 145 naming the server's file instead of its module.
kill_cmd_by_file == "pkill -f partition_server.py"

\* line 145
kill_cmd == "pkill -f " \o path_to_partition_server

\* line 148
python_cmd == "python3 -m " \o path_to_partition_server

\* lines 149-152: the detached launch command
screen_cmd ==
  "screen -dm bash -c '" \o python_cmd \o " |& tee "
     \o "-a ~/.rh/" \o PARTITION_SERVER_JOB \o ".log 2>&1'"

\* line 161: the queue listing of the liveness probe
squeue_probe_cmd(job_name) == "squeue --name " \o job_name

\* line 166: the process listing of the liveness probe
ps_probe_cmd == "ps aux | grep '[r]unhouse.servers.http.slurm.partition_server'"

\* line 157
launch_error(name) == "Failed to launch partition server for " \o name \o "."


\* ------------------------------------------------------- the remote host
\* What runs on the remote host: scheduler jobs (named, listed by squeue) and
\* plain processes (listed by ps), each with the command line it runs.
Job(n, c) == [kind |-> "job", name |-> n, cmdline |-> c]
Proc(c) == [kind |-> "proc", name |-> "", cmdline |-> c]

QueueRow(e) == e.name \o " R\n"
ProcRow(e) == e.cmdline \o "\n"

\* squeue's rows for the jobs named `filter`.
RECURSIVE QueueListing(_, _)
QueueListing(rem, filter) ==
  IF rem = <<>> THEN ""
  ELSE (IF Head(rem).kind = "job" /\ Head(rem).name = filter
        THEN QueueRow(Head(rem)) ELSE "")
       \o QueueListing(Tail(rem), filter)

\* A grep pattern as the literal it matches: quotes dropped, a leading
\* one-character bracket expression [c] read as c.
GrepLiteral(pat) ==
  LET q == IF StartsWith(pat, "'") /\ Len(pat) >= 2
           THEN SubSeq(pat, 2, Len(pat) - 1) ELSE pat
  IN IF Len(q) >= 3 /\ SubSeq(q, 1, 1) = "[" /\ SubSeq(q, 3, 3) = "]"
     THEN SubSeq(q, 2, 2) \o SubSeq(q, 4, Len(q))
     ELSE q

\* ps aux | grep: the rows of the processes whose command line matches.
RECURSIVE ProcListing(_, _)
ProcListing(rem, lit) ==
  IF rem = <<>> THEN ""
  ELSE (IF Head(rem).kind = "proc" /\ Contains(lit, Head(rem).cmdline)
        THEN ProcRow(Head(rem)) ELSE "")
       \o ProcListing(Tail(rem), lit)

\* pkill -f: the host without the processes whose command line matches.
Killed(rem, lit) ==
  SelectSeq(rem, LAMBDA e : ~(e.kind = "proc" /\ Contains(lit, e.cmdline)))

\* One command on the host: <<exit code, stdout, stderr>>. The host is "ok",
\* "down" (it answers no command) or at "fault" (it refuses to start a
\* partition server: no resources, no screen).
Unreachable == <<255, "", "ssh: connect to host: Connection refused">>
Refused == <<1, "", "error: unable to start the partition server">>

IsLaunchCmd(cmd) == StartsWith(cmd, "srun -J ") \/ StartsWith(cmd, "screen -dm bash -c '")

RunOne(cmd, rem, host) ==
  IF host = "down" THEN Unreachable
  ELSE IF host = "fault" /\ IsLaunchCmd(cmd) THEN Refused
  ELSE IF StartsWith(cmd, "squeue --name ")
    THEN <<0, QueueListing(rem, After(cmd, "squeue --name ")), "">>
  ELSE IF StartsWith(cmd, "squeue -n ")
    THEN <<0, QueueListing(rem, After(cmd, "squeue -n ")), "">>
  ELSE IF StartsWith(cmd, "ps aux | grep ")
    THEN LET out == ProcListing(rem, GrepLiteral(After(cmd, "ps aux | grep ")))
         IN <<IF out = "" THEN 1 ELSE 0, out, "">>
  ELSE IF StartsWith(cmd, "pkill -f ")
    THEN <<IF Killed(rem, After(cmd, "pkill -f ")) = rem THEN 1 ELSE 0, "", "">>
  ELSE IF IsLaunchCmd(cmd)
    THEN <<0, "", "">>
  ELSE <<127, "", "bash: command not found">>

\* The host after the command.
RunEffect(cmd, rem, host) ==
  IF host = "down" \/ (host = "fault" /\ IsLaunchCmd(cmd)) THEN rem
  ELSE IF StartsWith(cmd, "pkill -f ")
    THEN Killed(rem, After(cmd, "pkill -f "))
  ELSE IF StartsWith(cmd, "srun -J ")
    THEN LET rest == After(cmd, "srun -J ")
             n == Before(rest, " ")
         IN Append(rem, Job(n, After(rest, Before(rest, "python3"))))
  ELSE IF StartsWith(cmd, "screen -dm bash -c '")
    THEN Append(rem, Proc(Before(After(cmd, "screen -dm bash -c '"), " |&")))
  ELSE rem

\* Cluster.run(commands) for a one-command list: one <<exit code, stdout,
\* stderr>> per command, in order (Python index 0 is index 1 here).
run(commands, rem, host) == << RunOne(commands[1], rem, host) >>


\* A HuggingFaceTable with no cached data, nothing stored and no save made.
NewTable == [data |-> None, store |-> None, last |-> None]

\* ------------------------------------------------------------ the state
VARIABLES
  name,       \* the cluster's name (self.name)
  partition,  \* self.partition: None or Some(text)
  remote,     \* what runs on the remote host, in launch order
  up,         \* whether the remote host answers commands
  pc,         \* per caller: where it stands in _launch_partition_server
  frame,      \* per caller: the locals of its call
  calls,      \* the records of the last two constructor / _launch_partition_server calls
  ncalls,     \* how many such calls were made
  outbox,     \* messages sent to the partition server by client.submit_job
  submits,    \* one record per jump_run call
  probed,     \* the last application of the probe's verdict to a listing text
  table       \* a HuggingFaceTable: its data attribute, its store, its last save

vars == <<name, partition, remote, up, pc, frame, calls, ncalls, outbox, submits, probed, table>>

Callers == {1, 2}

ClusterNames == {"debug-cluster", "rh-slurm"}
PartitionArgs == {None, Some(""), Some("debug")}
JobNameArgs == {None, Some(""), Some("ctl")}

NoFrame == [restart_server |-> FALSE, job_name |-> "", partition_server_cmd |-> "", call |-> 0]

\* ------------------------------------- _launch_partition_server, in pieces
\* line 124 with the cluster's name as the default.
effective_job_name_cluster(job_name) == PyOr(job_name, name)

\* line 124
effective_job_name(job_name) == PyOr(job_name, PARTITION_SERVER_JOB)

\* line 125 without the probe.
probes_never(restart_server) == FALSE

\* line 125 probing whatever restart_server is.
probes_always(restart_server) == TRUE

\* line 125: the probe is made only when restart_server is false
probes_first(restart_server) == ~restart_server

\* line 160 as `if self.partition is not None`.
probe_uses_scheduler_if_not_none(part) == part # None

\* line 160: `if self.partition` in the probe
probe_uses_scheduler(part) == Truthy(part)

\* line 129: `if self.partition` in the launch step
launch_uses_scheduler(part) == Truthy(part)

\* lines 161, 165-167: the listing command of the probe
probe_cmd(job_name, part) ==
  IF probe_uses_scheduler(part) THEN squeue_probe_cmd(job_name) ELSE ps_probe_cmd

\* lines 160-171 looking for the job name under both strategies.
is_running_by_job_name(listing, job_name, part) == Contains(job_name, listing)

\* lines 160-171 matching the start of the listing only.
is_running_prefix(listing, job_name, part) ==
  IF Truthy(part)
  THEN StartsWith(listing, job_name)
  ELSE StartsWith(listing, "partition_server")

\* lines 160-171: the probe's verdict on the listing text
is_running(listing, job_name, part) ==
  IF probe_uses_scheduler(part)
  THEN Contains(job_name, listing)
  ELSE Contains("partition_server", listing)

\* lines 162, 168: status_codes[0][1] is the first command's stdout
\* lines 159-171 remembering that an earlier call found or started the server.
partition_server_is_running_cached(status_codes, job_name, part) ==
  \/ is_running(status_codes[1][2], job_name, part)
  \/ \E i \in 1..Len(calls) : calls[i].outcome = "returned" /\ calls[i].cmds # <<>>

partition_server_is_running(status_codes, job_name, part) ==
  is_running(status_codes[1][2], job_name, part)

\* line 156 as `== 1`.
launch_failed_on_one(partition_status_codes) == partition_status_codes[1][1] = 1

\* line 156: partition_status_codes[0][0] != 0
launch_failed(partition_status_codes) == partition_status_codes[1][1] # 0

\* ---------------------------------------------------------- call records
\* One command as a call issued it; `peer` counts the commands an overlapping
\* call had issued by then (0 when no call overlaps).
Issued(step, cmd, res, peer) ==
  [step |-> step, cmd |-> cmd, rc |-> res[1][1], out |-> res[1][2], err |-> res[1][3],
   peer |-> peer]

\* line 45 without the test of dryrun.
launches_on_init_always(dryrun) == TRUE

\* line 45: if not dryrun
launches_on_init(dryrun) == ~dryrun

NewCall(origin, dryrun, restart_server, job_name) ==
  [origin |-> origin, dryrun |-> dryrun, restart |-> restart_server,
   jobArg |-> job_name, job |-> effective_job_name(job_name), cmds |-> <<>>, probe |-> "none",
   outcome |-> IF launches_on_init(dryrun) THEN "active" ELSE "returned", error |-> "",
   warned |-> FALSE, ext |-> FALSE, asked |-> dryrun,
   overlap |-> \E q \in Callers : pc[q] # "idle",
   before |-> remote, upBefore |-> up, after |-> remote]

\* How many commands the call overlapping caller p's has issued.
PeerCmds(p) ==
  LET i == frame[p].call
  IN IF calls[i].overlap /\ Len(calls) = 2 THEN Len(calls[3 - i].cmds) ELSE 0

\* The call record of caller p with one more command issued.
WithCmd(p, step, cmd, res) ==
  [calls[frame[p].call] EXCEPT !.cmds = Append(@, Issued(step, cmd, res, PeerCmds(p)))]

\* The host as a command finds it.
Host(fault) == IF ~up THEN "down" ELSE IF fault THEN "fault" ELSE "ok"

\* The records of the last two calls are kept: a new record pushes out the
\* older one, which has finished.
Push(cs, rec) == IF Len(cs) < 2 THEN Append(cs, rec) ELSE <<cs[2], rec>>
CanPush == IF Len(calls) < 2 THEN TRUE ELSE calls[1].outcome # "active"

\* A call that begins while another is under way overlaps it.
Overlapped(cs) ==
  [i \in 1..Len(cs) |->
     IF cs[i].outcome = "active" THEN [cs[i] EXCEPT !.overlap = TRUE] ELSE cs[i]]

\* The frames of the calls under way, after a new record was pushed.
Shifted(fr) ==
  [q \in Callers |->
     IF pc[q] # "idle" /\ Len(calls) = 2 THEN [fr[q] EXCEPT !.call = @ - 1] ELSE fr[q]]

\* The entry of _launch_partition_server (lines 123-125).
Enter(p, restart_server, job_name) ==
  /\ frame' = [Shifted(frame) EXCEPT ![p] =
        [restart_server |-> restart_server,
         job_name |-> effective_job_name(job_name),
         partition_server_cmd |-> "",
         call |-> Len(Push(calls, NewCall("direct", FALSE, restart_server, job_name)))]]
  /\ pc' = [pc EXCEPT ![p] = IF probes_first(restart_server) THEN "probe" ELSE "prepare"]

Idle == \A q \in Callers : pc[q] = "idle"


\* ------------------------------------------------------------- actions
\* The body of SlurmCluster.__init__ (lines 30-46) on this cluster's name,
\* address and partition; `asked` is the dryrun the caller asked for.
SlurmCluster_init(p, origin, asked, dryrun, restart_server) ==
  /\ calls' = Push(Overlapped(calls),
        [NewCall(origin, dryrun, restart_server, None)
           EXCEPT !.warned = (partition = None), !.asked = asked])
  /\ IF launches_on_init(dryrun)
     THEN Enter(p, restart_server, None)
     ELSE pc' = pc /\ frame' = Shifted(frame)

\* SlurmCluster.__init__ (lines 16-46).
Construct(p) ==
  /\ pc[p] = "idle"
  /\ CanPush
  /\ ncalls < MaxCalls
  /\ ncalls' = ncalls + 1
  /\ \E dryrun \in BOOLEAN, restart_server \in BOOLEAN :
       SlurmCluster_init(p, "init", dryrun, dryrun, restart_server)
  /\ UNCHANGED <<name, partition, remote, up, outbox, submits, probed, table>>

\* lines 22-23: the constructor's defaults.
default_dryrun == FALSE
default_restart_server == TRUE

\* SlurmCluster.from_config (lines 48-51) on a stored config, which holds
\* neither a dryrun nor a restart_server entry: the constructor is called
\* with {**config, **kwargs}.
from_config(p) ==
  /\ pc[p] = "idle"
  /\ CanPush
  /\ ncalls < MaxCalls
  /\ ncalls' = ncalls + 1
  /\ \E dryrun \in BOOLEAN :
       SlurmCluster_init(p, "from_config", dryrun, default_dryrun, default_restart_server)
  /\ UNCHANGED <<name, partition, remote, up, outbox, submits, probed, table>>

\* A direct call of _launch_partition_server(restart_server, job_name) (line 123).
LaunchCall(p) ==
  /\ pc[p] = "idle"
  /\ CanPush
  /\ ncalls < MaxCalls
  /\ ncalls' = ncalls + 1
  /\ \E restart_server \in BOOLEAN, job_name \in JobNameArgs :
       /\ calls' = Push(Overlapped(calls), NewCall("direct", FALSE, restart_server, job_name))
       /\ Enter(p, restart_server, job_name)
  /\ UNCHANGED <<name, partition, remote, up, outbox, submits, probed, table>>

\* The liveness probe raising on a non-zero exit code of its listing command.
ProbeChecked(p) ==
  /\ pc[p] = "probe"
  /\ LET f == frame[p]
         cmd == probe_cmd(f.job_name, partition)
         status_codes == run(<<cmd>>, remote, Host(FALSE))
         running == partition_server_is_running(status_codes, f.job_name, partition)
         rec == WithCmd(p, "probe", cmd, status_codes)
     IN /\ remote' = RunEffect(cmd, remote, Host(FALSE))
        /\ IF status_codes[1][1] # 0
           THEN /\ calls' = [calls EXCEPT ![f.call] =
                      [rec EXCEPT !.outcome = "raised", !.error = launch_error(name),
                                  !.after = remote']]
                /\ pc' = [pc EXCEPT ![p] = "idle"]
                /\ frame' = [frame EXCEPT ![p] = NoFrame]
           ELSE IF running
           THEN /\ calls' = [calls EXCEPT ![f.call] =
                      [rec EXCEPT !.probe = "running", !.outcome = "returned",
                                  !.after = remote']]
                /\ pc' = [pc EXCEPT ![p] = "idle"]
                /\ frame' = [frame EXCEPT ![p] = NoFrame]
           ELSE /\ calls' = [calls EXCEPT ![f.call] = [rec EXCEPT !.probe = "absent"]]
                /\ pc' = [pc EXCEPT ![p] = "prepare"]
                /\ frame' = frame
  /\ UNCHANGED <<name, partition, up, ncalls, outbox, submits, probed, table>>

\* line 125 with lines 159-171: the liveness probe, and the early return.
Probe(p) ==
  /\ pc[p] = "probe"
  /\ LET f == frame[p]
         cmd == probe_cmd(f.job_name, partition)
         status_codes == run(<<cmd>>, remote, Host(FALSE))
         running == partition_server_is_running(status_codes, f.job_name, partition)
         rec == WithCmd(p, "probe", cmd, status_codes)
     IN /\ remote' = RunEffect(cmd, remote, Host(FALSE))
        /\ IF running
           THEN /\ calls' = [calls EXCEPT ![f.call] =
                      [rec EXCEPT !.probe = "running", !.outcome = "returned",
                                  !.after = remote']]
                /\ pc' = [pc EXCEPT ![p] = "idle"]
                /\ frame' = [frame EXCEPT ![p] = NoFrame]
           ELSE /\ calls' = [calls EXCEPT ![f.call] = [rec EXCEPT !.probe = "absent"]]
                /\ pc' = [pc EXCEPT ![p] = "prepare"]
                /\ frame' = frame
  /\ UNCHANGED <<name, partition, up, ncalls, outbox, submits, probed, table>>

\* lines 129-138 returning when the queue already lists the job.
QueueCheckSkips(p) ==
  /\ pc[p] = "prepare"
  /\ launch_uses_scheduler(partition)
  /\ LET f == frame[p]
         cmd == queue_cmd(f.job_name)
         queue_return_codes == run(<<cmd>>, remote, Host(FALSE))
         rec == WithCmd(p, "check", cmd, queue_return_codes)
     IN /\ remote' = RunEffect(cmd, remote, Host(FALSE))
        /\ IF Contains(f.job_name, queue_return_codes[1][2])
           THEN /\ calls' = [calls EXCEPT ![f.call] =
                      [rec EXCEPT !.outcome = "returned", !.after = remote']]
                /\ pc' = [pc EXCEPT ![p] = "idle"]
                /\ frame' = [frame EXCEPT ![p] = NoFrame]
           ELSE /\ calls' = [calls EXCEPT ![f.call] = rec]
                /\ pc' = [pc EXCEPT ![p] = "launch"]
                /\ frame' = [frame EXCEPT ![p].partition_server_cmd = srun_cmd(f.job_name)]
  /\ UNCHANGED <<name, partition, up, ncalls, outbox, submits, probed, table>>

\* lines 129-138: the scheduled branch, its queue check and its launch command.
QueueCheck(p) ==
  /\ pc[p] = "prepare"
  /\ launch_uses_scheduler(partition)
  /\ LET f == frame[p]
         cmd == queue_cmd(f.job_name)
         queue_return_codes == run(<<cmd>>, remote, Host(FALSE))
     IN /\ remote' = RunEffect(cmd, remote, Host(FALSE))
        /\ calls' = [calls EXCEPT ![f.call] = WithCmd(p, "check", cmd, queue_return_codes)]
        /\ frame' = [frame EXCEPT ![p].partition_server_cmd = srun_cmd(f.job_name)]
  /\ pc' = [pc EXCEPT ![p] = "launch"]
  /\ UNCHANGED <<name, partition, up, ncalls, outbox, submits, probed, table>>

\* lines 139-152 raising on a non-zero exit code of the kill command.
KillChecked(p) ==
  /\ pc[p] = "prepare"
  /\ ~launch_uses_scheduler(partition)
  /\ LET f == frame[p]
         res == run(<<kill_cmd>>, remote, Host(FALSE))
         rec == WithCmd(p, "kill", kill_cmd, res)
     IN /\ remote' = RunEffect(kill_cmd, remote, Host(FALSE))
        /\ IF res[1][1] # 0
           THEN /\ calls' = [calls EXCEPT ![f.call] =
                      [rec EXCEPT !.outcome = "raised", !.error = launch_error(name),
                                  !.after = remote']]
                /\ pc' = [pc EXCEPT ![p] = "idle"]
                /\ frame' = [frame EXCEPT ![p] = NoFrame]
           ELSE /\ calls' = [calls EXCEPT ![f.call] = rec]
                /\ pc' = [pc EXCEPT ![p] = "launch"]
                /\ frame' = [frame EXCEPT ![p].partition_server_cmd = screen_cmd]
  /\ UNCHANGED <<name, partition, up, ncalls, outbox, submits, probed, table>>

\* lines 139-152: the single-node branch, its kill and its launch command.
Kill(p) ==
  /\ pc[p] = "prepare"
  /\ ~launch_uses_scheduler(partition)
  /\ LET f == frame[p]
         res == run(<<kill_cmd>>, remote, Host(FALSE))
     IN /\ remote' = RunEffect(kill_cmd, remote, Host(FALSE))
        /\ calls' = [calls EXCEPT ![f.call] = WithCmd(p, "kill", kill_cmd, res)]
        /\ frame' = [frame EXCEPT ![p].partition_server_cmd = screen_cmd]
  /\ pc' = [pc EXCEPT ![p] = "launch"]
  /\ UNCHANGED <<name, partition, up, ncalls, outbox, submits, probed, table>>

\* lines 154-157 launching only when the host runs no partition server at
\* that moment, and returning otherwise.
LaunchGuarded(p) ==
  /\ pc[p] = "launch"
  /\ \E fault \in BOOLEAN :
     LET f == frame[p]
         cmd == f.partition_server_cmd
         partition_status_codes == run(<<cmd>>, remote, Host(fault))
         rec == WithCmd(p, "launch", cmd, partition_status_codes)
     IN IF up /\ remote # <<>>
        THEN /\ remote' = remote
             /\ calls' = [calls EXCEPT ![f.call] =
                   [@ EXCEPT !.outcome = "returned", !.after = remote]]
        ELSE /\ remote' = RunEffect(cmd, remote, Host(fault))
             /\ calls' = [calls EXCEPT ![f.call] =
                   IF launch_failed(partition_status_codes)
                   THEN [rec EXCEPT !.outcome = "raised", !.error = launch_error(name),
                                    !.after = remote']
                   ELSE [rec EXCEPT !.outcome = "returned", !.after = remote']]
  /\ pc' = [pc EXCEPT ![p] = "idle"]
  /\ frame' = [frame EXCEPT ![p] = NoFrame]
  /\ UNCHANGED <<name, partition, up, ncalls, outbox, submits, probed, table>>

\* lines 154-157: the launch command and the check of its exit code.
Launch(p) ==
  /\ pc[p] = "launch"
  /\ \E fault \in BOOLEAN :
     LET f == frame[p]
         cmd == f.partition_server_cmd
         partition_status_codes == run(<<cmd>>, remote, Host(fault))
         rec == WithCmd(p, "launch", cmd, partition_status_codes)
     IN /\ remote' = RunEffect(cmd, remote, Host(fault))
        /\ calls' = [calls EXCEPT ![f.call] =
              IF launch_failed(partition_status_codes)
              THEN [rec EXCEPT !.outcome = "raised", !.error = launch_error(name),
                               !.after = remote']
              ELSE [rec EXCEPT !.outcome = "returned", !.after = remote']]
  /\ pc' = [pc EXCEPT ![p] = "idle"]
  /\ frame' = [frame EXCEPT ![p] = NoFrame]
  /\ UNCHANGED <<name, partition, up, ncalls, outbox, submits, probed, table>>

\* ----------------------------------------------------- the environment
\* An out-of-band change is noted on the latest call record.
NoteExternal ==
  calls' = IF calls = <<>> THEN calls
           ELSE [calls EXCEPT ![Len(calls)].ext = TRUE]

\* A partition server stops out-of-band (crash, preemption, manual kill).
ExternalStop ==
  /\ Idle
  /\ \E i \in 1..Len(remote) :
        remote' = SubSeq(remote, 1, i - 1) \o SubSeq(remote, i + 1, Len(remote))
  /\ NoteExternal
  /\ UNCHANGED <<name, partition, up, pc, frame, ncalls, outbox, submits, probed, table>>

\* The remote host stops answering, or answers again.
Outage ==
  /\ Idle
  /\ up
  /\ up' = FALSE
  /\ NoteExternal
  /\ UNCHANGED <<name, partition, remote, pc, frame, ncalls, outbox, submits, probed, table>>

Recover ==
  /\ Idle
  /\ ~up
  /\ up' = TRUE
  /\ NoteExternal
  /\ UNCHANGED <<name, partition, remote, pc, frame, ncalls, outbox, submits, probed, table>>

Init ==
  /\ name \in ClusterNames
  /\ partition \in PartitionArgs
  /\ remote = <<>>
  /\ up = TRUE
  /\ pc = [p \in Callers |-> "idle"]
  /\ frame = [p \in Callers |-> NoFrame]
  /\ calls = <<>>
  /\ ncalls = 0
  /\ outbox = <<>>
  /\ submits = <<>>
  /\ probed = <<>>
  /\ table = NewTable

\* One caller at a time: lifecycle calls on one cluster are serialized.
Next ==
  \/ Idle /\ Construct(1)
  \/ Idle /\ from_config(1)
  \/ Idle /\ LaunchCall(1)
  \/ \E p \in Callers : Probe(p)
  \/ \E p \in Callers : QueueCheck(p)
  \/ \E p \in Callers : Kill(p)
  \/ \E p \in Callers : Launch(p)
  \/ ExternalStop
  \/ Outage
  \/ Recover

Spec == Init /\ [][Next]_vars

\* Callers that do not wait for one another: a call may begin while another
\* is under way, and their commands reach the host in any order.
NextRace ==
  \/ \E p \in Callers : LaunchCall(p)
  \/ \E p \in Callers : Probe(p)
  \/ \E p \in Callers : QueueCheck(p)
  \/ \E p \in Callers : Kill(p)
  \/ \E p \in Callers : Launch(p)

SpecRace == Init /\ [][NextRace]_vars


\* ------------------------------------------------------------ jump_run
FnArgs == {None, Some("train_fn")}
CommandArgs == {None, Some(<<"echo hi">>)}
SubmitNameArgs == {None, Some(""), Some("train1")}

\* line 90 losing the function.
fn_obj_dropped(fn) == None

\* line 90: fn_obj = function(fn=fn, name=self.name, ...) if fn else None
fn_obj_of(fn) == IF fn # None THEN Some([fn |-> fn[1], name |-> name]) ELSE None

\* line 93 as name=self.name.
submit_name_cluster(job_name) == name

\* line 93: name=job_name or self.name
submit_name(job_name) == PyOr(job_name, name)

\* lines 92-102: the arguments jump_run hands to client.submit_job
submit_request(job_name, fn, commands) ==
  [name |-> submit_name(job_name), fn_obj |-> fn_obj_of(fn),
   partition |-> partition, commands |-> commands,
   env |-> None, mail_type |-> None, mail_user |-> None,
   args |-> <<>>, kwargs |-> <<>>]

\* client.submit_job: a request carries exactly one payload, a function or
\* a command list; any other request is refused before a message is sent.
payload_count(req) ==
  (IF req.fn_obj # None THEN 1 ELSE 0) + (IF req.commands # None THEN 1 ELSE 0)

\* The partition server answers when the host is up and a server runs on it.
server_reachable == up /\ remote # <<>>

submit_outcome(req) ==
  IF payload_count(req) # 1 THEN "ConfigurationError"
  ELSE IF server_reachable THEN "ack"
  ELSE "SubmissionError"

\* The messages client.submit_job sends for the request.
submit_messages(req) == IF payload_count(req) # 1 THEN <<>> ELSE <<req>>

\* The partition server of a cluster, as a launch leaves it on the host.
ServerOf(part) ==
  IF launch_uses_scheduler(part)
  THEN Job(PARTITION_SERVER_JOB, python_cmd)
  ELSE Proc(python_cmd)

\* jump_run starting the partition server when none runs, before it submits.
jump_run_ensuring ==
  /\ Len(submits) < MaxSubmits
  /\ remote' = IF remote = <<>> THEN <<ServerOf(partition)>> ELSE remote
  /\ \E job_name \in SubmitNameArgs, fn \in FnArgs, commands \in CommandArgs :
       LET req == submit_request(job_name, fn, commands)
       IN /\ outbox' = outbox \o submit_messages(req)
          /\ submits' = Append(submits,
                [job_name |-> job_name, fn |-> fn, commands |-> commands,
                 outcome |-> submit_outcome(req),
                 sent |-> submit_messages(req),
                 remoteBefore |-> remote])
  /\ UNCHANGED <<name, partition, up, pc, frame, calls, ncalls, probed, table>>

\* SlurmCluster.jump_run (lines 60-102).
jump_run ==
  /\ Len(submits) < MaxSubmits
  /\ \E job_name \in SubmitNameArgs, fn \in FnArgs, commands \in CommandArgs :
       LET req == submit_request(job_name, fn, commands)
       IN /\ outbox' = outbox \o submit_messages(req)
          /\ submits' = Append(submits,
                [job_name |-> job_name, fn |-> fn, commands |-> commands,
                 outcome |-> submit_outcome(req),
                 sent |-> submit_messages(req),
                 remoteBefore |-> remote])
  /\ UNCHANGED <<name, partition, remote, up, pc, frame, calls, ncalls, probed, table>>

\* A cluster whose partition server an earlier session may have started.
InitSubmit ==
  /\ name \in ClusterNames
  /\ partition \in PartitionArgs
  /\ remote \in {<<>>, <<ServerOf(partition)>>}
  /\ up = TRUE
  /\ pc = [p \in Callers |-> "idle"]
  /\ frame = [p \in Callers |-> NoFrame]
  /\ calls = <<>>
  /\ ncalls = 0
  /\ outbox = <<>>
  /\ submits = <<>>
  /\ probed = <<>>
  /\ table = NewTable

NextSubmit ==
  \/ jump_run
  \/ ExternalStop
  \/ Outage
  \/ Recover

SpecSubmit == InitSubmit /\ [][NextSubmit]_vars

\* ------------------------------------------------------ HuggingFaceTable
\* The values the data attribute holds, by type; a Dataset wraps an arrow table.
Dataset(t) == [type |-> "datasets.Dataset", table |-> t]
ArrowTable(t) == [type |-> "pyarrow.Table", table |-> t]
DatasetDict == [type |-> "datasets.DatasetDict", table |-> ""]
DataFrame == [type |-> "pandas.DataFrame", table |-> ""]
DataArgs ==
  {None, Some(Dataset("t1")), Some(Dataset("t2")), Some(DatasetDict), Some(DataFrame)}
SaveNameArgs == {None, Some("my_table")}

\* line 37: self.data.data.table
arrow_table_of(dataset) == ArrowTable(dataset.table)

\* lines 31-48: the error save raises before the underlying save, if any
save_type_error(cached) ==
  IF cached = None THEN "none"
  ELSE IF cached[1].type = "datasets.Dataset" THEN "none"
  ELSE IF cached[1].type = "datasets.DatasetDict" THEN "NotImplementedError"
  ELSE "TypeError"

\* lines 36-38: the Dataset save sets aside, None when the data is none
hf_dataset_of(cached) ==
  IF cached # None /\ cached[1].type = "datasets.Dataset" THEN cached ELSE None

\* lines 36-38: what the data attribute holds during the underlying save
data_for_save(cached) ==
  IF hf_dataset_of(cached) # None THEN Some(arrow_table_of(cached[1])) ELSE cached

\* lines 55-56: what the data attribute holds once the underlying save returned
data_after_save(current, hf_dataset) ==
  IF hf_dataset # None THEN hf_dataset ELSE current

\* The data attribute is set (the constructor's data argument, an assignment).
set_data ==
  /\ \E d \in DataArgs : table' = [table EXCEPT !.data = d]
  /\ UNCHANGED <<name, partition, remote, up, pc, frame, calls, ncalls, outbox,
                 submits, probed>>

\* HuggingFaceTable.save (lines 23-58); `fails` is whether the underlying
\* Table.save raises (the store refuses the write).
save ==
  /\ \E save_name \in SaveNameArgs, snapshot \in BOOLEAN, overwrite \in BOOLEAN,
        fails \in BOOLEAN :
       LET given == table.data
           error == save_type_error(given)
           hf_dataset == hf_dataset_of(given)
           during == data_for_save(given)
           call == [given |-> given, name |-> save_name, snapshot |-> snapshot,
                    overwrite |-> overwrite]
       IN IF error # "none"
          THEN table' = [table EXCEPT
                  !.last = Some(call @@ [raised |-> error, underlying |-> FALSE,
                                         wrote |-> None, after |-> given])]
          ELSE IF fails
          THEN table' = [data |-> during, store |-> table.store,
                         last |-> Some(call @@ [raised |-> "SaveError", underlying |-> TRUE,
                                                wrote |-> None, after |-> during])]
          ELSE table' = [data |-> data_after_save(during, hf_dataset), store |-> during,
                         last |-> Some(call @@ [raised |-> "none", underlying |-> TRUE,
                                                wrote |-> during,
                                                after |-> data_after_save(during, hf_dataset)])]
  /\ UNCHANGED <<name, partition, remote, up, pc, frame, calls, ncalls, outbox,
                 submits, probed>>

NextTable ==
  \/ set_data
  \/ save

SpecTable == Init /\ [][NextTable]_vars

\* ------------------------------------------- the probe as a function of text
\* Listing texts: a row (or nothing) between two pads. `has` names what the
\* row mentions; no pad mentions a job name or the module.
ListingPads == {"", "JOBID NAME ST\n", "77 train R\n"}
ListingCores ==
  { [text |-> "", has |-> {}],
    [text |-> QueueRow(Job("partition_server", python_cmd)), has |-> {"partition_server"}],
    [text |-> QueueRow(Job("ctl", python_cmd)), has |-> {"ctl"}],
    [text |-> QueueRow(Job("eval", python_cmd)), has |-> {}],
    [text |-> ProcRow(Proc(python_cmd)), has |-> {"partition_server"}],
    [text |-> ProcRow(Proc("python3 -m http.server")), has |-> {}] }

\* The job names _partition_server_is_running is called with (line 124
\* never passes an empty one).
ProbeJobNames == { effective_job_name(j) : j \in JobNameArgs }

ApplyProbe ==
  /\ \E pre \in ListingPads, core \in ListingCores, post \in ListingPads,
        job_name \in ProbeJobNames :
       probed' = << [pre |-> pre, core |-> core, post |-> post,
                     listing |-> pre \o core.text \o post,
                     job_name |-> job_name,
                     result |-> is_running(pre \o core.text \o post, job_name, partition)] >>
  /\ UNCHANGED <<name, partition, remote, up, pc, frame, calls, ncalls, outbox, submits, table>>

NextProbe == ApplyProbe

SpecProbe == Init /\ [][NextProbe]_vars


\* ============================================================== claims
\* What a call record shows, read off the text of the commands it issued.
Finished(rec) == rec.outcome # "active"
Invoked(rec) == ~rec.dryrun
IsKillCmd(cmd) == StartsWith(cmd, "pkill ")
IsQueueQuery(cmd) == StartsWith(cmd, "squeue ")
IsProcQuery(cmd) == StartsWith(cmd, "ps aux")
LaunchIdx(rec) == { i \in 1..Len(rec.cmds) : IsLaunchCmd(rec.cmds[i].cmd) }
KillIdx(rec) == { i \in 1..Len(rec.cmds) : IsKillCmd(rec.cmds[i].cmd) }
Launches(rec) == Cardinality(LaunchIdx(rec))
Kills(rec) == Cardinality(KillIdx(rec))
StrategyOf(cmd) ==
  IF IsQueueQuery(cmd) \/ StartsWith(cmd, "srun ") THEN "SCHEDULED" ELSE "BACKGROUND"

\* Two finished calls in sequence with restart_server false and the same job
\* name, and no out-of-band change since the first began.
SequentialPair ==
  /\ Len(calls) = 2
  /\ \A i \in 1..2 : Finished(calls[i]) /\ Invoked(calls[i]) /\ ~calls[i].restart
  /\ calls[1].job = calls[2].job
  /\ ~calls[1].ext

\* C1 as stated: two such calls issue at most one launch command in total.
C1_AtMostOneLaunch ==
  SequentialPair => Launches(calls[1]) + Launches(calls[2]) <= 1

\* C1 amended: when the first call returned without error, the two calls
\* issue at most one launch command in total, and when the first call
\* launched, the second call's probe reports running and it launches nothing.
C1_Idempotent ==
  (SequentialPair /\ calls[1].outcome = "returned") =>
     /\ Launches(calls[1]) + Launches(calls[2]) <= 1
     /\ Launches(calls[1]) = 1 =>
           (calls[2].probe = "running" /\ Launches(calls[2]) = 0)

C1_Witness ==
  /\ SequentialPair
  /\ calls[1].outcome = "returned"
  /\ Launches(calls[1]) = 1
  /\ calls[2].probe = "running"

\* The host answered when the call began, and a partition server was then
\* running where the call's listing looks: a process, or a job of its name.
VisibleServer(rec) ==
  /\ rec.upBefore
  /\ \E i \in 1..Len(rec.before) :
        rec.before[i].kind = "proc" \/ rec.before[i].name = rec.job

\* C2 as stated: for either value of restart_server, a call on a cluster
\* whose partition server is running issues no launch and no kill command
\* and leaves the number of running servers as it was.
C2_NeverDuplicatesOrDisrupts ==
  \A i \in 1..Len(calls) :
     (Finished(calls[i]) /\ Invoked(calls[i]) /\ VisibleServer(calls[i])) =>
        /\ Launches(calls[i]) = 0
        /\ Kills(calls[i]) = 0
        /\ Len(calls[i].after) = Len(calls[i].before)

\* C2 amended: with restart_server false, a call on a cluster whose
\* partition server is running issues no launch and no kill command and
\* leaves the running servers as they were.
C2_NoRestartKeepsServer ==
  \A i \in 1..Len(calls) :
     (Finished(calls[i]) /\ Invoked(calls[i]) /\ VisibleServer(calls[i])
        /\ ~calls[i].restart) =>
        /\ Launches(calls[i]) = 0
        /\ Kills(calls[i]) = 0
        /\ calls[i].after = calls[i].before

C2_Witness ==
  \E i \in 1..Len(calls) :
     /\ Finished(calls[i]) /\ Invoked(calls[i]) /\ VisibleServer(calls[i])
     /\ ~calls[i].restart
     /\ calls[i].probe = "running"

\* C3 as stated: every command of a call is of the BACKGROUND strategy when
\* the partition is absent and of the SCHEDULED strategy when it is present,
\* the empty string included.
C3_StrategyByPresence ==
  \A i \in 1..Len(calls) : \A k \in 1..Len(calls[i].cmds) :
     StrategyOf(calls[i].cmds[k].cmd) =
        (IF partition = None THEN "BACKGROUND" ELSE "SCHEDULED")

\* C3 amended: every command of a call, the probe's and the launch step's
\* alike, is of the BACKGROUND strategy when the partition is absent or the
\* empty string, and of the SCHEDULED strategy when it is a non-empty string.
C3_StrategyByTruthiness ==
  \A i \in 1..Len(calls) : \A k \in 1..Len(calls[i].cmds) :
     StrategyOf(calls[i].cmds[k].cmd) =
        (IF partition \in {None, Some("")} THEN "BACKGROUND" ELSE "SCHEDULED")

C3_Witness ==
  \E i \in 1..Len(calls) :
     /\ partition = Some("")
     /\ Finished(calls[i])
     /\ calls[i].probe = "absent"
     /\ Launches(calls[i]) = 1
     /\ \A k \in 1..Len(calls[i].cmds) : StrategyOf(calls[i].cmds[k].cmd) = "BACKGROUND"

\* C4 as stated: a call that ran the launch command raises exactly when the
\* command's exit code is not 0 and returns exactly when it is 0, and the
\* error carries the cluster's name and the launch command's stderr.
C4_ErrorCarriesStderr ==
  \A i \in 1..Len(calls) : \A k \in LaunchIdx(calls[i]) :
     Finished(calls[i]) =>
        /\ (calls[i].outcome = "raised") = (calls[i].cmds[k].rc # 0)
        /\ (calls[i].outcome = "returned") = (calls[i].cmds[k].rc = 0)
        /\ calls[i].outcome = "raised" =>
              /\ Contains(name, calls[i].error)
              /\ Contains(calls[i].cmds[k].err, calls[i].error)

\* C4 amended: a call that ran the launch command raises exactly when the
\* command's exit code is not 0 and returns exactly when it is 0; the error
\* carries the cluster's name and not the launch command's stderr.
C4_LaunchOutcome ==
  \A i \in 1..Len(calls) : \A k \in LaunchIdx(calls[i]) :
     Finished(calls[i]) =>
        /\ (calls[i].outcome = "raised") = (calls[i].cmds[k].rc # 0)
        /\ (calls[i].outcome = "returned") = (calls[i].cmds[k].rc = 0)
        /\ calls[i].outcome = "raised" =>
              /\ Contains(name, calls[i].error)
              /\ ~Contains(calls[i].cmds[k].err, calls[i].error)

C4_Witness ==
  \E i \in 1..Len(calls) : \E k \in LaunchIdx(calls[i]) :
     /\ calls[i].outcome = "raised"
     /\ calls[i].cmds[k].rc = 255
     /\ calls[i].cmds[k].err # ""


C6_OneMessageNamed ==
  \A i \in 1..Len(submits) :
     LET r == submits[i]
     IN r.outcome = "ack" =>
          /\ Len(r.sent) = 1
          /\ r.sent[1].name =
               (IF r.job_name \in {None, Some("")} THEN name ELSE r.job_name[1])

C6_Witness ==
  \E i \in 1..Len(submits) :
     /\ submits[i].outcome = "ack"
     /\ submits[i].job_name = Some("train1")
     /\ Len(outbox) = 1
     /\ outbox[1].name = "train1"

\* The job a command names: the filter of a queue query, the -J of srun.
NamesJob(cmd) == IsQueueQuery(cmd) \/ StartsWith(cmd, "srun -J ")
JobNamed(cmd) ==
  IF StartsWith(cmd, "squeue --name ") THEN After(cmd, "squeue --name ")
  ELSE IF StartsWith(cmd, "squeue -n ") THEN After(cmd, "squeue -n ")
  ELSE Before(After(cmd, "srun -J "), " ")

\* C7 as stated: when no job name is given, the queue queries and the
\* scheduled launch command of a call name the cluster's own name.
C7_DefaultIsClusterName ==
  \A i \in 1..Len(calls) : \A k \in 1..Len(calls[i].cmds) :
     (calls[i].jobArg = None /\ NamesJob(calls[i].cmds[k].cmd)) =>
        JobNamed(calls[i].cmds[k].cmd) = name

\* C7 amended: when no job name is given, the queue queries and the
\* scheduled launch command of a call name the job "partition_server",
\* whatever the cluster's name.
C7_DefaultIsPartitionServer ==
  \A i \in 1..Len(calls) : \A k \in 1..Len(calls[i].cmds) :
     (calls[i].jobArg = None /\ NamesJob(calls[i].cmds[k].cmd)) =>
        JobNamed(calls[i].cmds[k].cmd) = "partition_server"

C7_Witness ==
  \E i \in 1..Len(calls) :
     /\ name = "debug-cluster"
     /\ calls[i].jobArg = None
     /\ Finished(calls[i])
     /\ Len(calls[i].cmds) = 3
     /\ calls[i].cmds[1].cmd = "squeue --name partition_server"
     /\ calls[i].cmds[2].cmd = "squeue -n partition_server"
     /\ StartsWith(calls[i].cmds[3].cmd, "srun -J partition_server ")

\* C8: the scheduled launch command names the job and refers to the
\* cluster's partition.
C8_LaunchReferencesPartition ==
  \A i \in 1..Len(calls) : \A k \in 1..Len(calls[i].cmds) :
     StartsWith(calls[i].cmds[k].cmd, "srun ") =>
        /\ JobNamed(calls[i].cmds[k].cmd) = calls[i].job
        /\ partition # None
        /\ Contains(partition[1], calls[i].cmds[k].cmd)

\* C9: the probe's verdict depends on the listing text alone: with a
\* partition it is true exactly when the listing mentions the job name,
\* without one exactly when it mentions the partition server's module; it is
\* false on the empty listing; the text around the mention does not matter.
C9_ProbeIsTextual ==
  probed # <<>> =>
     LET r == probed[1]
     IN /\ r.result =
             (IF partition \in {None, Some("")}
              THEN "partition_server" \in r.core.has
              ELSE r.job_name \in r.core.has)
        /\ r.listing = "" => ~r.result

C9_Witness ==
  /\ probed # <<>>
  /\ probed[1].pre # ""
  /\ probed[1].post # ""
  /\ probed[1].result

\* C10 as stated: a non-zero exit code of any command of a call other than
\* the kill command makes the call fail at that command.
C10_NonZeroExitFails ==
  \A i \in 1..Len(calls) : \A k \in 1..Len(calls[i].cmds) :
     (Finished(calls[i]) /\ ~IsKillCmd(calls[i].cmds[k].cmd)
        /\ calls[i].cmds[k].rc # 0) =>
        (calls[i].outcome = "raised" /\ k = Len(calls[i].cmds))

\* C10 amended: the launch command is the only command whose non-zero exit
\* code fails a call; after a non-zero exit code of the probe's listing
\* query, of the queue check or of the kill command the call goes on to its
\* next command.
C10_OnlyLaunchExitCounts ==
  \A i \in 1..Len(calls) :
     Finished(calls[i]) =>
        /\ calls[i].outcome = "raised" =>
              /\ calls[i].cmds # <<>>
              /\ IsLaunchCmd(calls[i].cmds[Len(calls[i].cmds)].cmd)
              /\ calls[i].cmds[Len(calls[i].cmds)].rc # 0
        /\ \A k \in 1..Len(calls[i].cmds) :
              (~IsLaunchCmd(calls[i].cmds[k].cmd) /\ calls[i].cmds[k].rc # 0) =>
                 k < Len(calls[i].cmds)

C10_Witness ==
  \E i \in 1..Len(calls) : \E k \in 1..Len(calls[i].cmds) :
     /\ calls[i].outcome = "returned"
     /\ IsProcQuery(calls[i].cmds[k].cmd)
     /\ calls[i].cmds[k].rc # 0

\* The liveness probe's listing queries, and where a call issued them.
IsProbeCmd(cmd) == StartsWith(cmd, "squeue --name ") \/ IsProcQuery(cmd)
ProbeIdx(rec) == { i \in 1..Len(rec.cmds) : IsProbeCmd(rec.cmds[i].cmd) }
Background == partition \in {None, Some("")}

\* Two overlapping calls with restart_server false, each of which found no
\* server, returned, and issued its kill command before the other issued
\* its launch command.
RacePair ==
  /\ Len(calls) = 2
  /\ Background
  /\ \A i \in 1..2 :
        /\ calls[i].outcome = "returned" /\ Invoked(calls[i])
        /\ calls[i].overlap
        /\ ~calls[i].restart
        /\ calls[i].probe = "absent"
        /\ Kills(calls[i]) = 1
        /\ \A k \in KillIdx(calls[i]) : \A l \in LaunchIdx(calls[3 - i]) :
              calls[i].cmds[k].peer < l

\* C11: when two calls with restart_server false overlap on a cluster
\* without a partition and without a running server, and both pass the probe
\* and both kill commands complete before either launch command, two
\* partition servers run at once when the later call returns.
C11_RaceLaunchesTwo ==
  RacePair => \E i \in 1..2 : Len(calls[i].after) >= 2

C11_Witness ==
  /\ RacePair
  /\ Len(remote) = 2
  /\ \A i \in 1..2 : remote[i].kind = "proc" /\ Launches(calls[i]) = 1

\* C12: a construction with dryrun set issues no command at all; one
\* without it makes one pass of _launch_partition_server with the caller's
\* restart_server (a probe first exactly when it is false, at most one probe
\* and one launch command); an absent partition gives the advisory only and
\* does not keep the construction from launching.
C12_ConstructionLaunchesUnlessDryrun ==
  \A i \in 1..Len(calls) :
     LET r == calls[i]
     IN r.origin = "init" =>
          /\ r.warned = (partition = None)
          /\ r.dryrun => (r.cmds = <<>> /\ r.outcome = "returned" /\ r.after = r.before)
          /\ (~r.dryrun /\ Finished(r)) =>
                /\ r.cmds # <<>>
                /\ IsProbeCmd(r.cmds[1].cmd) = ~r.restart
                /\ Cardinality(ProbeIdx(r)) <= 1
                /\ Launches(r) <= 1
                /\ r.restart => Launches(r) = 1

C12_Witness ==
  \E i \in 1..Len(calls) :
     /\ calls[i].origin = "init"
     /\ ~calls[i].dryrun
     /\ partition = None
     /\ calls[i].warned
     /\ calls[i].outcome = "returned"
     /\ Launches(calls[i]) = 1

\* C13: a jump_run call leaves the running partition servers, the host and
\* every lifecycle call record as they were: it issues no probe, no kill and
\* no launch command, whether a partition server runs or not.
C13_JumpRunLeavesLifecycleAlone ==
  [][submits' # submits =>
        (remote' = remote /\ calls' = calls /\ pc' = pc /\ up' = up)]_vars

C13_Witness ==
  /\ Len(submits) = 1
  /\ submits[1].remoteBefore = <<>>
  /\ remote = <<>>
  /\ calls = <<>>
  /\ submits[1].outcome = "SubmissionError"

\* C14: every call with restart_server false begins with a fresh listing
\* query and its verdict is what the host shows at that moment, whatever
\* earlier calls found; when no server is visible then, the call issues a
\* launch command.
C14_ProbeIsFresh ==
  \A i \in 1..Len(calls) :
     LET r == calls[i]
     IN (Finished(r) /\ Invoked(r) /\ ~r.restart) =>
          /\ r.cmds # <<>>
          /\ IsProbeCmd(r.cmds[1].cmd)
          /\ (r.probe = "running") = VisibleServer(r)
          /\ ~VisibleServer(r) => Launches(r) = 1

C14_Witness ==
  /\ Len(calls) = 2
  /\ calls[1].outcome = "returned"
  /\ calls[1].after # <<>>
  /\ calls[1].ext
  /\ calls[2].upBefore
  /\ calls[2].before = <<>>
  /\ ~calls[2].restart
  /\ calls[2].probe = "absent"
  /\ Launches(calls[2]) = 1

\* C15: a call issues the launch command exactly once when restart_server
\* is true (and then makes no probe) or when it is false and the probe
\* reports not running, and never when it is false and the probe reports
\* running; a call that failed issued it once, as its last command.
C15_LaunchCount ==
  \A i \in 1..Len(calls) :
     LET r == calls[i]
     IN (Finished(r) /\ Invoked(r)) =>
          /\ r.restart => (ProbeIdx(r) = {} /\ r.probe = "none" /\ Launches(r) = 1)
          /\ ~r.restart => (Cardinality(ProbeIdx(r)) = 1 /\ r.probe \in {"absent", "running"})
          /\ (~r.restart /\ r.probe = "absent") => Launches(r) = 1
          /\ (~r.restart /\ r.probe = "running") => Launches(r) = 0
          /\ r.outcome = "raised" =>
                (Launches(r) = 1 /\ IsLaunchCmd(r.cmds[Len(r.cmds)].cmd))

C15_Witness ==
  \E i \in 1..Len(calls) :
     /\ calls[i].restart
     /\ Invoked(calls[i])
     /\ calls[i].outcome = "raised"
     /\ Launches(calls[i]) = 1
     /\ Len(calls[i].cmds) = 2

\* C16: on a cluster without a partition, a call that reaches the launch
\* step issues the kill command and then, whatever its exit code, the
\* detached launch command; the call returns exactly when the launch
\* command exits with 0, whatever the kill command's exit code was.
C16_KillThenLaunch ==
  \A i \in 1..Len(calls) :
     LET r == calls[i]
     IN (Finished(r) /\ Invoked(r) /\ Background) =>
          /\ \A k \in KillIdx(r) : k + 1 \in LaunchIdx(r)
          /\ \A l \in LaunchIdx(r) :
                /\ l - 1 \in KillIdx(r)
                /\ StartsWith(r.cmds[l].cmd, "screen -dm ")
                /\ (r.outcome = "returned") = (r.cmds[l].rc = 0)

C16_Witness ==
  /\ Len(calls) = 2
  /\ Background
  /\ \A i \in 1..2 : calls[i].outcome = "returned" /\ Kills(calls[i]) = 1
  /\ \E k \in KillIdx(calls[1]) : calls[1].cmds[k].rc = 1
  /\ \E k \in KillIdx(calls[2]) : calls[2].cmds[k].rc = 0

\* C17: on a cluster with a partition, a call that reaches the launch step
\* issues the queue check and then the scheduled launch command, the same
\* command whether the check lists the job or nothing, and no kill or cancel
\* command.
C17_QueueCheckNeverBlocks ==
  \A i \in 1..Len(calls) :
     LET r == calls[i]
     IN (Finished(r) /\ Invoked(r) /\ ~Background) =>
          /\ \A k \in 1..Len(r.cmds) :
                /\ ~IsKillCmd(r.cmds[k].cmd)
                /\ ~StartsWith(r.cmds[k].cmd, "scancel")
                /\ StartsWith(r.cmds[k].cmd, "squeue -n ") =>
                      /\ k + 1 \in LaunchIdx(r)
                      /\ r.cmds[k + 1].cmd =
                            "srun -J " \o r.job \o " -o %j.out -e %j.err "
                               \o "python3 -m runhouse.servers.http.slurm.partition_server"
          /\ \A l \in LaunchIdx(r) : r.cmds[l - 1].cmd = "squeue -n " \o r.job

C17_Witness ==
  \E i \in 1..Len(calls) : \E k \in 1..Len(calls[i].cmds) :
     /\ ~Background
     /\ calls[i].outcome = "returned"
     /\ StartsWith(calls[i].cmds[k].cmd, "squeue -n ")
     /\ Contains(calls[i].job, calls[i].cmds[k].out)
     /\ k + 1 \in LaunchIdx(calls[i])
     /\ Len(calls[i].after) = Len(calls[i].before) + 1

\* C18: on a cluster without a partition whose calls do not overlap, at
\* most one partition server runs when a call returns, and every launch
\* command of a call comes after a kill command of that call.
C18_AtMostOneServer ==
  \A i \in 1..Len(calls) :
     LET r == calls[i]
     IN (Finished(r) /\ Invoked(r) /\ Background) =>
          /\ Len(r.after) <= 1
          /\ \A l \in LaunchIdx(r) : \E k \in KillIdx(r) : k < l

C18_Witness ==
  /\ Len(calls) = 2
  /\ Background
  /\ \A i \in 1..2 : calls[i].outcome = "returned" /\ Launches(calls[i]) = 1
  /\ Len(calls[2].before) = 1
  /\ Len(calls[2].after) = 1

\* C19: a from_config call with dryrun true issues no probe, no kill and no
\* launch command.
C19_FromConfigHonoursDryrun ==
  \A i \in 1..Len(calls) :
     (calls[i].origin = "from_config" /\ calls[i].asked /\ Finished(calls[i])) =>
        calls[i].cmds = <<>>

\* C20: a save on cached Dataset data leaves the data attribute holding that
\* Dataset, whether the underlying save returns or raises; a save on a
\* DatasetDict or another unsupported type raises before the underlying save
\* is invoked and leaves the data attribute as it was.
C20_SaveRestoresData ==
  table.last # None =>
     LET r == table.last[1]
     IN r.given # None =>
          /\ r.given[1].type = "datasets.Dataset" => r.after = r.given
          /\ r.given[1].type # "datasets.Dataset" =>
                (r.raised \in {"NotImplementedError", "TypeError"}
                   /\ ~r.underlying /\ r.after = r.given)

====
